---- MODULE Spec2Model ----
(***************************************************************************)
(* Model of src/index.ts: the RemixAppProject constructor, the two         *)
(* generated file descriptors and the remix.config.js renderer.            *)
(*                                                                         *)
(* The host framework (projen) is external.  What the component does to it *)
(* is recorded, in program order, in the variable calls: one record per    *)
(* call the constructor makes (addDeps, addDevDeps, addTask,               *)
(* gitignore.exclude, new TextFile, new RemixConfigFile, new Pm2ConfigFile,*)
(* new PostCss).                                                           *)
(*                                                                         *)
(* Strings that take part in an interpolation are sequences of pieces: a   *)
(* caller-supplied string is the sequence of its characters, a literal of  *)
(* the source that is only ever copied is one piece, and `a${b}` is        *)
(* concatenation.  An optional value v?: T is <<>> when undefined and <<v>>*)
(* when supplied.                                                          *)
(***************************************************************************)
EXTENDS Integers, Sequences, FiniteSets, TLC

VARIABLES
    env,                    \* process.env.REMIX_RUN_LICENSE (optional string)
    npmrcOnDisk,            \* whether ./.npmrc exists on disk
    pc,                     \* position of the constructor
    options,                \* the RemixAppProjectOptions passed by the caller
    deploymentProvider,     \* this.deploymentProvider
    appDirectory,           \* this.appDirectory
    browserBuildDirectory,  \* this.browserBuildDirectory
    publicPath,             \* this.publicPath
    serverBuildDirectory,   \* this.serverBuildDirectory
    devServerPort,          \* this.devServerPort
    tailwind,               \* this.tailwind
    remixVersion,           \* this.remixVersion
    calls,                  \* calls made to the host framework, in order
    remixConfigFile,        \* this.remixConfigFile (the descriptor's options)
    error,                  \* the Error thrown by the constructor, if any
    synthCount,             \* number of synthesizeContent invocations so far
    synthesized             \* text returned by the last synthesizeContent

fields == <<deploymentProvider, appDirectory, browserBuildDirectory,
            publicPath, serverBuildDirectory, devServerPort, tailwind,
            remixVersion>>
vars == <<env, npmrcOnDisk, pc, options, fields, calls, remixConfigFile,
          error, synthCount, synthesized>>

----------------------------------------------------------------------------
(* Bounds and input sets *)

MaxSynth == 2

None == <<>>
Some(v) == <<v>>
Optional(S) == {None} \cup {Some(v) : v \in S}

EXPRESS == "express"
VERCEL == "vercel"
RemixDeploymentProvider == {EXPRESS, VERCEL}

UserStrings == {<<>>, <<"x">>}
UserPorts == {0, 3000}
Tokens == {<<>>, <<"t", "k">>}

RemixAppProjectOptions ==
    [remixVersion : Optional(UserStrings),
     depolymentProvider : Optional(RemixDeploymentProvider),
     appDirectory : Optional(UserStrings),
     browserBuildDirectory : Optional(UserStrings),
     publicPath : Optional(UserStrings),
     serverBuildDirectory : Optional(UserStrings),
     devServerPort : Optional(UserPorts),
     tailwind : Optional(BOOLEAN)]

NoOptions ==
    [remixVersion |-> None, depolymentProvider |-> None,
     appDirectory |-> None, browserBuildDirectory |-> None,
     publicPath |-> None, serverBuildDirectory |-> None,
     devServerPort |-> None, tailwind |-> None]

----------------------------------------------------------------------------
(* Pure helpers *)

defaultRemixAppProjectOptions ==
    [remixVersion |-> <<"0", ".", "1", "3", ".", "1">>,
     depolymentProvider |-> EXPRESS,
     appDirectory |-> <<"a", "p", "p">>,
     browserBuildDirectory |->
         <<"p", "u", "b", "l", "i", "c", "/", "b", "u", "i", "l", "d">>,
     publicPath |-> <<"/", "b", "u", "i", "l", "d", "/">>,
     serverBuildDirectory |-> <<"b", "u", "i", "l", "d">>,
     devServerPort |-> 8002,
     tailwind |-> FALSE]

\* a ?? b
Coalesce(a, b) == IF a = None THEN b ELSE a[1]

\* truthiness of process.env.X: undefined and '' are falsy
Truthy(s) == s # None /\ s[1] # <<>>

Digit(d) == <<"0", "1", "2", "3", "4", "5", "6", "7", "8", "9">>[d + 1]

\* `${n}` for an integer n
RECURSIVE NumToStr(_)
NumToStr(n) ==
    IF n < 0 THEN <<"-">> \o NumToStr(-n)
    ELSE IF n < 10 THEN <<Digit(n)>>
    ELSE NumToStr(n \div 10) \o <<Digit(n % 10)>>

Call(op, args) == [op |-> op, args |-> args]

----------------------------------------------------------------------------
Init ==
    /\ env \in Optional(Tokens)
    /\ npmrcOnDisk \in BOOLEAN
    /\ pc = "new"
    /\ options = NoOptions
    /\ deploymentProvider = EXPRESS
    /\ appDirectory = <<>>
    /\ browserBuildDirectory = <<>>
    /\ publicPath = <<>>
    /\ serverBuildDirectory = <<>>
    /\ devServerPort = 0
    /\ tailwind = FALSE
    /\ remixVersion = <<>>
    /\ calls = <<>>
    /\ remixConfigFile = None
    /\ error = None
    /\ synthCount = 0
    /\ synthesized = None

ResolveDeploymentProvider(o) ==
    Coalesce(o.depolymentProvider,
             defaultRemixAppProjectOptions.depolymentProvider)
ResolveAppDirectory(o) ==
    Coalesce(o.appDirectory, defaultRemixAppProjectOptions.appDirectory)
ResolveBrowserBuildDirectory(o) ==
    Coalesce(o.browserBuildDirectory,
             defaultRemixAppProjectOptions.browserBuildDirectory)
ResolvePublicPath(o) ==
    Coalesce(o.publicPath, defaultRemixAppProjectOptions.publicPath)
ResolveServerBuildDirectory(o) ==
    Coalesce(o.serverBuildDirectory,
             defaultRemixAppProjectOptions.serverBuildDirectory)
\* variant: || in place of ??, so that port 0 falls back to the default
ResolveDevServerPort_Or(o) ==
    IF o.devServerPort = None \/ o.devServerPort[1] = 0
    THEN defaultRemixAppProjectOptions.devServerPort
    ELSE o.devServerPort[1]
ResolveDevServerPort(o) ==
    Coalesce(o.devServerPort, defaultRemixAppProjectOptions.devServerPort)
ResolveTailwind(o) ==
    Coalesce(o.tailwind, defaultRemixAppProjectOptions.tailwind)
ResolveRemixVersion(o) ==
    Coalesce(o.remixVersion, defaultRemixAppProjectOptions.remixVersion)

\* constructor entry and default resolution
Construct ==
    /\ pc = "new"
    /\ \E o \in RemixAppProjectOptions :
        /\ options' = o
        /\ deploymentProvider' = ResolveDeploymentProvider(o)
        /\ appDirectory' = ResolveAppDirectory(o)
        /\ browserBuildDirectory' = ResolveBrowserBuildDirectory(o)
        /\ publicPath' = ResolvePublicPath(o)
        /\ serverBuildDirectory' = ResolveServerBuildDirectory(o)
        /\ devServerPort' = ResolveDevServerPort(o)
        /\ tailwind' = ResolveTailwind(o)
        /\ remixVersion' = ResolveRemixVersion(o)
    /\ pc' = "config"
    /\ UNCHANGED <<env, npmrcOnDisk, calls, remixConfigFile, error,
                   synthCount, synthesized>>

\* variant: serverBuildDirectory filled from the browser build directory
RemixConfigFileOptions_Swapped ==
    [appDirectory |-> appDirectory,
     browserBuildDirectory |-> browserBuildDirectory,
     publicPath |-> publicPath,
     serverBuildDirectory |-> browserBuildDirectory,
     devServerPort |-> devServerPort]

\* the options object literal handed to new RemixConfigFile
RemixConfigFileOptions ==
    [appDirectory |-> appDirectory,
     browserBuildDirectory |-> browserBuildDirectory,
     publicPath |-> publicPath,
     serverBuildDirectory |-> serverBuildDirectory,
     devServerPort |-> devServerPort]

\* this.remixConfigFile = new RemixConfigFile(this, 'remix.config.js', {...})
RegisterRemixConfigFile ==
    /\ pc = "config"
    /\ calls' = Append(calls, Call("new RemixConfigFile",
                                   <<"remix.config.js", RemixConfigFileOptions>>))
    /\ remixConfigFile' = Some(RemixConfigFileOptions)
    /\ pc' = "gitignore"
    /\ UNCHANGED <<env, npmrcOnDisk, options, fields, error, synthCount,
                   synthesized>>

RemixHeading == <<"#", " ", "R", "e", "m", "i", "x">>

\* variant: the second exclude repeats the browser build directory
GitignoreCalls_BrowserTwice(browserDir, serverDir) ==
    <<Call("gitignore.exclude", <<RemixHeading, <<"/">> \o browserDir>>),
      Call("gitignore.exclude", <<RemixHeading, <<"/">> \o browserDir>>)>>

GitignoreCalls(browserDir, serverDir) ==
    <<Call("gitignore.exclude", <<RemixHeading, <<"/">> \o browserDir>>),
      Call("gitignore.exclude", <<RemixHeading, <<"/">> \o serverDir>>)>>

\* this.gitignore.exclude('# Remix', ...) twice
GitignoreExclude ==
    /\ pc = "gitignore"
    /\ calls' = calls \o GitignoreCalls(browserBuildDirectory,
                                        serverBuildDirectory)
    /\ pc' = "credentials"
    /\ UNCHANGED <<env, npmrcOnDisk, options, fields, remixConfigFile, error,
                   synthCount, synthesized>>

\* new TextFile(this, '.npmrc', {...})
NpmrcTextFile(token) ==
    Call("new TextFile",
         <<".npmrc",
           [committed |-> FALSE,
            readonly |-> FALSE,
            lines |-> <<<<"//npm.remix.run/:_authToken=">> \o token,
                        <<"@remix-run:registry=https://npm.remix.run">>>>]>>)

\* variant: the React bindings left unpinned
addRemixDeps_Unpinned(version) ==
    Call("addDeps",
         <<<<"@remix-run/cli@">> \o version,
           <<"@remix-run/data@">> \o version,
           <<"@remix-run/react">>,
           <<"react">>,
           <<"react-dom">>,
           <<"react-router@^6.0.0-beta.0">>,
           <<"react-router-dom@^6.0.0-beta.0">>>>)

addRemixDeps(version) ==
    Call("addDeps",
         <<<<"@remix-run/cli@">> \o version,
           <<"@remix-run/data@">> \o version,
           <<"@remix-run/react@">> \o version,
           <<"react">>,
           <<"react-dom">>,
           <<"react-router@^6.0.0-beta.0">>,
           <<"react-router-dom@^6.0.0-beta.0">>>>)

\* if (process.env.REMIX_RUN_LICENSE)
LicenseInEnv == Truthy(env)

\* variant: the existence test inverted
NpmrcExists_Inverted == ~npmrcOnDisk

\* fs.existsSync(path.join('.npmrc'))
NpmrcExists == npmrcOnDisk

CredentialsFromEnvCalls ==
    <<NpmrcTextFile(env[1]), addRemixDeps(remixVersion)>>

\* variant: the file branch also writes a credentials file
CredentialsFromFileCalls_WithNpmrc ==
    <<NpmrcTextFile(<<>>), addRemixDeps(remixVersion)>>

CredentialsFromFileCalls ==
    <<addRemixDeps(remixVersion)>>

CredentialsFromEnv ==
    /\ pc = "credentials"
    /\ LicenseInEnv
    /\ calls' = calls \o CredentialsFromEnvCalls
    /\ pc' = "typedeps"
    /\ UNCHANGED <<env, npmrcOnDisk, options, fields, remixConfigFile, error,
                   synthCount, synthesized>>

CredentialsFromFile ==
    /\ pc = "credentials"
    /\ ~LicenseInEnv
    /\ NpmrcExists
    /\ calls' = calls \o CredentialsFromFileCalls
    /\ pc' = "typedeps"
    /\ UNCHANGED <<env, npmrcOnDisk, options, fields, remixConfigFile, error,
                   synthCount, synthesized>>

\* variant: the framework dependencies registered before the throw
CredentialsMissing_AfterDeps ==
    /\ pc = "credentials"
    /\ ~LicenseInEnv
    /\ ~NpmrcExists
    /\ calls' = Append(calls, addRemixDeps(remixVersion))
    /\ error' = Some("Environment variable REMIX_RUN_LICENSE not set")
    /\ pc' = "failed"
    /\ UNCHANGED <<env, npmrcOnDisk, options, fields, remixConfigFile,
                   synthCount, synthesized>>

CredentialsMissing ==
    /\ pc = "credentials"
    /\ ~LicenseInEnv
    /\ ~NpmrcExists
    /\ error' = Some("Environment variable REMIX_RUN_LICENSE not set")
    /\ pc' = "failed"
    /\ UNCHANGED <<env, npmrcOnDisk, options, fields, calls, remixConfigFile,
                   synthCount, synthesized>>

TypeDevDepsCalls ==
    <<Call("addDevDeps", <<<<"@types/react">>, <<"@types/react-dom">>>>)>>

\* this.addDevDeps('@types/react', '@types/react-dom')
AddTypeDevDeps ==
    /\ pc = "typedeps"
    /\ calls' = calls \o TypeDevDepsCalls
    /\ pc' = "provider"
    /\ UNCHANGED <<env, npmrcOnDisk, options, fields, remixConfigFile, error,
                   synthCount, synthesized>>

BUILD == "build"
RELEASE == "release"

\* variant: every task filed under the build category
Task_BuildOnly(name, description, category, exec) ==
    Call("addTask", <<name, [description |-> description,
                             category |-> BUILD,
                             exec |-> exec]>>)

Task(name, description, category, exec) ==
    Call("addTask", <<name, [description |-> description,
                             category |-> category,
                             exec |-> exec]>>)

ExpressCalls(version) ==
    <<Call("addDeps", <<<<"@remix-run/express@">> \o version,
                        <<"express">>,
                        <<"morgan">>>>),
      Call("addDevDeps", <<<<"pm2">>>>),
      Call("new Pm2ConfigFile", <<"pm2.config.js">>),
      Task("build", "Builds the project", BUILD, "remix build"),
      Task("dev", "Start dev server", BUILD, "pm2-dev pm2.config.js"),
      Task("start", "Start server", RELEASE, "node server.js")>>

VercelCalls(version) ==
    <<Call("addDeps", <<<<"@remix-run/vercel@">> \o version,
                        <<"@vercel/node@1.8.3">>>>),
      Call("addDevDeps", <<<<"vercel">>, <<"concurrently">>>>),
      Task("predeploy", "Builds the project", BUILD, "remix build"),
      Task("deploy", "Deploy to vercel", RELEASE, "vercel"),
      Task("start", "Start server", RELEASE,
           "concurrently \"remix run\" \"vercel dev\"")>>

\* this.deploymentProvider === RemixDeploymentProvider.EXPRESS
IsExpress(provider) == provider = EXPRESS

\* variant: the VERCEL block left unguarded
IsVercel_Always(provider) == TRUE

\* this.deploymentProvider === RemixDeploymentProvider.VERCEL
IsVercel(provider) == provider = VERCEL

\* the two consecutive provider ifs
ProviderCalls(provider, version) ==
    (IF IsExpress(provider) THEN ExpressCalls(version) ELSE <<>>)
    \o (IF IsVercel(provider) THEN VercelCalls(version) ELSE <<>>)

RegisterProvider ==
    /\ pc = "provider"
    /\ calls' = calls \o ProviderCalls(deploymentProvider, remixVersion)
    /\ pc' = "tailwind"
    /\ UNCHANGED <<env, npmrcOnDisk, options, fields, remixConfigFile, error,
                   synthCount, synthesized>>

\* variant: the add-on registered without testing the flag
TailwindCalls_Always(flag) == <<Call("new PostCss", <<[tailwind |-> TRUE]>>)>>

\* if (this.tailwind) new PostCss(this, { tailwind: true })
TailwindCalls(flag) ==
    IF flag THEN <<Call("new PostCss", <<[tailwind |-> TRUE]>>)>> ELSE <<>>

RegisterTailwind ==
    /\ pc = "tailwind"
    /\ calls' = calls \o TailwindCalls(tailwind)
    /\ pc' = "done"
    /\ UNCHANGED <<env, npmrcOnDisk, options, fields, remixConfigFile, error,
                   synthCount, synthesized>>

\* the template literal of createRemixConfig; the documentation comments
\* between the fields are literal pieces, abbreviated here
createRemixConfig(o) ==
    <<"\nmodule.exports = {\n",
      "  /** The path to the \"app\" directory ... */\n",
      "  appDirectory: '">>
    \o o.appDirectory
    \o <<"',\n\n",
         "  /** A hook for defining custom routes ... */\n",
         "  // routes(defineRoutes) { ... },\n\n",
         "  /** The path to the browser build ... */\n",
         "  browserBuildDirectory: '">>
    \o o.browserBuildDirectory
    \o <<"',\n\n",
         "  /** The URL prefix of the browser build ... */\n",
         "  publicPath: '">>
    \o o.publicPath
    \o <<"',\n\n",
         "  /** The path to the server build directory ... */\n",
         "  serverBuildDirectory: '">>
    \o o.serverBuildDirectory
    \o <<"',\n\n",
         "  /** The port to use when running \"remix run\" ... */\n",
         "  devServerPort: ">>
    \o NumToStr(o.devServerPort)
    \o <<"\n}; \n">>

\* RemixConfigFile.synthesizeContent, invoked by the host after construction
SynthesizeContent ==
    /\ pc = "done"
    /\ synthCount < MaxSynth
    /\ synthesized' = Some(createRemixConfig(remixConfigFile[1]))
    /\ synthCount' = synthCount + 1
    /\ UNCHANGED <<env, npmrcOnDisk, pc, options, fields, calls,
                   remixConfigFile, error>>

Next ==
    \/ Construct
    \/ RegisterRemixConfigFile
    \/ GitignoreExclude
    \/ CredentialsFromEnv
    \/ CredentialsFromFile
    \/ CredentialsMissing
    \/ AddTypeDevDeps
    \/ RegisterProvider
    \/ RegisterTailwind
    \/ SynthesizeContent

Spec == Init /\ [][Next]_vars

----------------------------------------------------------------------------
(* Views of the recorded calls *)

RECURSIVE Flatten(_)
Flatten(ss) == IF ss = <<>> THEN <<>> ELSE Head(ss) \o Flatten(Tail(ss))

Range(seq) == {seq[i] : i \in DOMAIN seq}
Count(seq, x) == Cardinality({i \in DOMAIN seq : seq[i] = x})
CallsOf(op) == SelectSeq(calls, LAMBDA c : c.op = op)
ArgsOf(op) == LET sel == CallsOf(op)
              IN Flatten([i \in 1..Len(sel) |-> sel[i].args])

Deps == ArgsOf("addDeps")
DevDeps == ArgsOf("addDevDeps")
DepHeads == {Head(d) : d \in Range(Deps \o DevDeps)}
TaskCalls == CallsOf("addTask")
TaskNames == [i \in 1..Len(TaskCalls) |-> TaskCalls[i].args[1]]
TaskSet == {<<TaskCalls[i].args[1], TaskCalls[i].args[2].category,
              TaskCalls[i].args[2].exec>> : i \in 1..Len(TaskCalls)}
GitignoreRules == SelectSeq(ArgsOf("gitignore.exclude"),
                            LAMBDA e : Head(e) # "#")
NpmrcFiles == SelectSeq(CallsOf("new TextFile"),
                        LAMBDA c : c.args[1] = ".npmrc")
Pm2Files == CallsOf("new Pm2ConfigFile")
ConfigFiles == CallsOf("new RemixConfigFile")
PostCssCalls == CallsOf("new PostCss")

Resolved == pc # "new"
PastCredentials == pc \in {"typedeps", "provider", "tailwind", "done"}
PastProvider == pc \in {"tailwind", "done"}
Finished == pc \in {"done", "failed"}
MissingCredentials == Some("Environment variable REMIX_RUN_LICENSE not set")

FrameworkDeps(version) ==
    <<<<"@remix-run/cli@">> \o version,
      <<"@remix-run/data@">> \o version,
      <<"@remix-run/react@">> \o version,
      <<"react">>, <<"react-dom">>,
      <<"react-router@^6.0.0-beta.0">>,
      <<"react-router-dom@^6.0.0-beta.0">>>>

ExpressOnlyHeads == {"@remix-run/express@", "express", "morgan", "pm2"}
VercelOnlyHeads ==
    {"@remix-run/vercel@", "@vercel/node@1.8.3", "vercel", "concurrently"}

ExpressTaskSet ==
    {<<"build", "build", "remix build">>,
     <<"dev", "build", "pm2-dev pm2.config.js">>,
     <<"start", "release", "node server.js">>}
VercelTaskSet ==
    {<<"predeploy", "build", "remix build">>,
     <<"deploy", "release", "vercel">>,
     <<"start", "release", "concurrently \"remix run\" \"vercel dev\"">>}

----------------------------------------------------------------------------
(* C1 *)

\* C1 as stated: once the credential step has been decided, construction
\* has thrown iff the environment variable is unset and .npmrc is absent.
C1_AsStated ==
    (PastCredentials \/ pc = "failed")
        => ((pc = "failed") <=> (env = None /\ ~npmrcOnDisk))

\* C1 amended: construction throws the missing-credentials error iff the
\* environment variable is unset or empty and .npmrc is absent; otherwise it
\* does not throw and the framework runtime dependencies get registered.
C1_ThrowsIffNoCredentials ==
    (PastCredentials \/ pc = "failed")
        => /\ (pc = "failed")
                <=> ((env = None \/ env = Some(<<>>)) /\ ~npmrcOnDisk)
           /\ (pc = "failed") <=> (error = MissingCredentials)
           /\ pc # "failed" =>
                Count(Deps, <<"@remix-run/cli@">> \o remixVersion) = 1

C1_Witness == pc = "failed" /\ env = Some(<<>>) /\ ~npmrcOnDisk

----------------------------------------------------------------------------
(* C2 *)

\* C2: nothing of the other provider is ever registered, and a successful
\* construction has run exactly one provider branch.
C2_OneProviderOnly ==
    Resolved =>
        /\ deploymentProvider = EXPRESS =>
             /\ DepHeads \cap VercelOnlyHeads = {}
             /\ Range(TaskNames) \cap {"predeploy", "deploy"} = {}
        /\ deploymentProvider = VERCEL =>
             /\ DepHeads \cap ExpressOnlyHeads = {}
             /\ Pm2Files = <<>>
             /\ Range(TaskNames) \cap {"build", "dev"} = {}
        /\ PastProvider =>
             ("@remix-run/express@" \in DepHeads)
                 # ("@remix-run/vercel@" \in DepHeads)

C2_Witness ==
    pc = "done" /\ deploymentProvider = VERCEL /\ "vercel" \in DepHeads

----------------------------------------------------------------------------
(* C3 *)

\* C3: the registered tasks are exactly the three of the provider, each
\* name once, whatever the other options are.
C3_TaskSetByProvider ==
    PastProvider =>
        /\ TaskSet = IF deploymentProvider = EXPRESS THEN ExpressTaskSet
                     ELSE VercelTaskSet
        /\ Len(TaskCalls) = 3
        /\ \A n \in Range(TaskNames) : Count(TaskNames, n) = 1

C3_Witness ==
    /\ pc = "done" /\ deploymentProvider = EXPRESS /\ tailwind
    /\ devServerPort = 0 /\ env = None
    /\ TaskNames = <<"build", "dev", "start">>

----------------------------------------------------------------------------
(* C4 *)

Given(f, default) == IF options[f] = None THEN default ELSE options[f][1]

\* C4: every resolved field is the caller's value when one was supplied
\* (falsy or not) and the documented default otherwise.
C4_FieldwiseDefaults ==
    Resolved =>
        /\ remixVersion = Given("remixVersion", <<"0", ".", "1", "3", ".", "1">>)
        /\ deploymentProvider = Given("depolymentProvider", "express")
        /\ appDirectory = Given("appDirectory", <<"a", "p", "p">>)
        /\ browserBuildDirectory =
             Given("browserBuildDirectory",
                   <<"p", "u", "b", "l", "i", "c", "/", "b", "u", "i", "l", "d">>)
        /\ publicPath = Given("publicPath", <<"/", "b", "u", "i", "l", "d", "/">>)
        /\ serverBuildDirectory =
             Given("serverBuildDirectory", <<"b", "u", "i", "l", "d">>)
        /\ devServerPort = Given("devServerPort", 8002)
        /\ tailwind = Given("tailwind", FALSE)

C4_Witness ==
    /\ pc = "config"
    /\ options.devServerPort = Some(0) /\ devServerPort = 0
    /\ options.appDirectory = Some(<<>>) /\ appDirectory = <<>>
    /\ options.tailwind = Some(FALSE)
    /\ options.publicPath = None /\ publicPath # <<>>

----------------------------------------------------------------------------
(* C5 *)

NpmrcAsDocumented(token) ==
    /\ Len(NpmrcFiles) = 1
    /\ NpmrcFiles[1].args[2].committed = FALSE
    /\ NpmrcFiles[1].args[2].readonly = FALSE
    /\ NpmrcFiles[1].args[2].lines =
         <<<<"//npm.remix.run/:_authToken=">> \o token,
           <<"@remix-run:registry=https://npm.remix.run">>>>

NpmrcAtMostOnce ==
    /\ Len(NpmrcFiles) <= 1
    /\ Len(NpmrcFiles) = 1 => (env # None \/ npmrcOnDisk)
    /\ (env = None /\ npmrcOnDisk) => Len(NpmrcFiles) = 0

\* C5 as stated: .npmrc is registered at most once and only with a
\* credential source; and whenever the variable is set, the registered file
\* is the documented one.
C5_AsStated ==
    /\ NpmrcAtMostOnce
    /\ (env # None /\ PastCredentials) => NpmrcAsDocumented(env[1])

\* C5 amended: as stated, but the file is registered only when the variable
\* is set to a non-empty string; set to the empty string, none is registered.
C5_NpmrcOnlyFromEnv ==
    /\ NpmrcAtMostOnce
    /\ (env # None /\ env # Some(<<>>) /\ PastCredentials)
           => NpmrcAsDocumented(env[1])
    /\ env = Some(<<>>) => Len(NpmrcFiles) = 0

C5_Witness ==
    /\ pc = "done" /\ env = Some(<<"t", "k">>) /\ npmrcOnDisk
    /\ Len(NpmrcFiles) = 1

----------------------------------------------------------------------------
(* C6 *)

\* C6: once the git-ignore step has run there are exactly two rules,
\* '/' + browserBuildDirectory then '/' + serverBuildDirectory, also when
\* the two directories are equal and when construction fails later.
C6_TwoGitignoreRules ==
    (PastCredentials \/ pc \in {"credentials", "failed"}) =>
        /\ Len(GitignoreRules) = 2
        /\ GitignoreRules = <<<<"/">> \o browserBuildDirectory,
                              <<"/">> \o serverBuildDirectory>>

C6_Witness ==
    /\ pc = "failed"
    /\ browserBuildDirectory = serverBuildDirectory
    /\ GitignoreRules = <<<<"/", "x">>, <<"/", "x">>>>

----------------------------------------------------------------------------
(* C7 *)

IsInfix(needle, text) ==
    \E i \in 0..(Len(text) - Len(needle)) :
        SubSeq(text, i + 1, i + Len(needle)) = needle

PortLabel == "  devServerPort: "
LabelAt(text) == CHOOSE k \in 1..Len(text) : text[k] = PortLabel
BeforePort(text) == SubSeq(text, 1, LabelAt(text))
PortAndAfter(text) == SubSeq(text, LabelAt(text) + 1, Len(text))

ConfigTextOk(text) ==
    /\ IsInfix(<<"  appDirectory: '">> \o appDirectory \o <<"',\n\n">>, text)
    /\ IsInfix(<<"  browserBuildDirectory: '">> \o browserBuildDirectory
                   \o <<"',\n\n">>, text)
    /\ IsInfix(<<"  publicPath: '">> \o publicPath \o <<"',\n\n">>, text)
    /\ IsInfix(<<"  serverBuildDirectory: '">> \o serverBuildDirectory
                   \o <<"',\n\n">>, text)
    /\ IsInfix(<<PortLabel>> \o NumToStr(devServerPort) \o <<"\n}; \n">>, text)
    /\ \A p \in UserPorts \cup {8002} :
         LET other == createRemixConfig(
                          [remixConfigFile[1] EXCEPT !.devServerPort = p])
         IN /\ BeforePort(other) = BeforePort(text)
            /\ PortAndAfter(text) = NumToStr(devServerPort) \o <<"\n}; \n">>
            /\ PortAndAfter(other) = NumToStr(p) \o <<"\n}; \n">>

C7_TextHasFields == synthesized # None => ConfigTextOk(synthesized[1])

\* C7: the synthesized text carries the five resolved layout values, each in
\* its own field; another port changes the port field only; and a text once
\* synthesized is what every later synthesis returns.
C7_ConfigText ==
    /\ []C7_TextHasFields
    /\ [][synthesized # None => synthesized' = synthesized]_vars

C7_Witness ==
    /\ synthCount = 2
    /\ options.devServerPort = Some(0)
    /\ appDirectory = <<"x">> /\ publicPath = <<>>
    /\ IsInfix(<<PortLabel, "0">>, synthesized[1])

----------------------------------------------------------------------------
(* C8 *)

ExpectedDeps(provider, version) ==
    FrameworkDeps(version)
    \o (IF provider = EXPRESS
        THEN <<<<"@remix-run/express@">> \o version, <<"express">>,
               <<"morgan">>>>
        ELSE <<<<"@remix-run/vercel@">> \o version,
               <<"@vercel/node@1.8.3">>>>)

ExpectedDevDeps(provider) ==
    <<<<"@types/react">>, <<"@types/react-dom">>>>
    \o (IF provider = EXPRESS THEN <<<<"pm2">>>>
        ELSE <<<<"vercel">>, <<"concurrently">>>>)

\* C8: the CSS add-on is registered once iff the resolved tailwind flag is
\* true, whatever the provider and the credential branch, and every other
\* registration is what it is without the flag.
C8_TailwindOnly ==
    pc = "done" =>
        /\ Len(PostCssCalls) = IF tailwind THEN 1 ELSE 0
        /\ \A i \in 1..Len(PostCssCalls) :
             PostCssCalls[i].args = <<[tailwind |-> TRUE]>>
        /\ Deps = ExpectedDeps(deploymentProvider, remixVersion)
        /\ DevDeps = ExpectedDevDeps(deploymentProvider)
        /\ TaskSet = IF deploymentProvider = EXPRESS THEN ExpressTaskSet
                     ELSE VercelTaskSet
        /\ Len(ConfigFiles) = 1
        /\ Len(Pm2Files) = IF deploymentProvider = EXPRESS THEN 1 ELSE 0
        /\ Len(NpmrcFiles) =
             IF env # None /\ env # Some(<<>>) THEN 1 ELSE 0
        /\ Len(ArgsOf("gitignore.exclude")) = 4
        /\ Len(SelectSeq(calls, LAMBDA c : c.op # "new PostCss")) =
             4 + (IF env # None /\ env # Some(<<>>) THEN 2 ELSE 1)
               + (IF deploymentProvider = EXPRESS THEN 6 ELSE 5)

C8_Witness ==
    /\ pc = "done" /\ options.tailwind = Some(TRUE)
    /\ deploymentProvider = VERCEL /\ env = None
    /\ Len(PostCssCalls) = 1

----------------------------------------------------------------------------
(* C9 *)

C9_FailedState ==
    pc = "failed" =>
        /\ error = MissingCredentials
        /\ Len(calls) = 3
        /\ Len(ConfigFiles) = 1
        /\ ConfigFiles[1].args[1] = "remix.config.js"
        /\ Len(GitignoreRules) = 2
        /\ NpmrcFiles = <<>>
        /\ Deps = <<>>
        /\ DevDeps = <<>>
        /\ Pm2Files = <<>>
        /\ TaskCalls = <<>>
        /\ PostCssCalls = <<>>

\* C9: a failed construction has registered remix.config.js and the two
\* git-ignore rules and nothing else, and no step follows the failure.
C9_FailsAfterStep3 ==
    /\ []C9_FailedState
    /\ [][pc # "failed"]_vars

C9_Witness ==
    /\ pc = "failed" /\ env = None /\ ~npmrcOnDisk
    /\ error # None /\ Len(calls) = 3

----------------------------------------------------------------------------
(* C10 *)

IndexOf(c) == CHOOSE i \in 1..Len(calls) : calls[i] = c
FrameworkCall == Call("addDeps", FrameworkDeps(remixVersion))
TypesCall == Call("addDevDeps", <<<<"@types/react">>, <<"@types/react-dom">>>>)
IsProviderCall(c) ==
    \/ c.op \in {"addTask", "new Pm2ConfigFile"}
    \/ /\ c.op \in {"addDeps", "addDevDeps"}
       /\ \E d \in Range(c.args) :
            Head(d) \in ExpressOnlyHeads \cup VercelOnlyHeads

\* C10: a successful construction registers the framework runtime set once,
\* pinned to the resolved version, in either credential branch; the adapter
\* carries the same version; the type declarations come after the framework
\* set and before anything of the provider.
C10_FrameworkDepsOnce ==
    PastProvider =>
        /\ Count(calls, FrameworkCall) = 1
        /\ \A d \in Range(FrameworkDeps(remixVersion)) : Count(Deps, d) = 1
        /\ Len(Deps) = 7 + IF deploymentProvider = EXPRESS THEN 3 ELSE 2
        /\ (IF deploymentProvider = EXPRESS
            THEN <<"@remix-run/express@">> \o remixVersion
            ELSE <<"@remix-run/vercel@">> \o remixVersion) \in Range(Deps)
        /\ Count(calls, TypesCall) = 1
        /\ IndexOf(FrameworkCall) < IndexOf(TypesCall)
        /\ \A i \in 1..Len(calls) :
             IsProviderCall(calls[i]) => IndexOf(TypesCall) < i

C10_Witness ==
    /\ pc = "done" /\ env = Some(<<>>) /\ npmrcOnDisk
    /\ deploymentProvider = VERCEL
    /\ options.remixVersion = Some(<<"x">>)
    /\ <<"@remix-run/vercel@", "x">> \in Range(Deps)
====
